---- MODULE Spec2Model ----
(***************************************************************************)
(* Model of the branch-relationship tracker of GitChildBranchHelpers       *)
(* (src/src/git_helpers.py): the three in-memory indexes of BranchTracker, *)
(* its queries and mutation operations, the rebase-precondition check,     *)
(* the csv store and the scoped session (BranchTrackerWrapper), run alone  *)
(* or as two simultaneous invocations on the same store.                   *)
(*                                                                         *)
(* A python dict is a function whose DOMAIN is the set of its keys; a      *)
(* python list or tuple is a sequence.  A tracker is the record            *)
(*   [c2p |-> _child_to_parent, p2c |-> _parent_to_children,               *)
(*    b2b |-> _branch_to_bases]                                            *)
(* and every operation is an operator from a tracker to a result           *)
(*   [c2p, p2c, b2b, err]                                                  *)
(* that executes the statements of the method in order; err names the      *)
(* exception that ended it ("none" when it returned), and c2p, p2c, b2b    *)
(* are the indexes as the statements executed before the exception left    *)
(* them.                                                                   *)
(***************************************************************************)
EXTENDS Naturals, Sequences, FiniteSets, TLC

\* Branch names and commit identifiers the operations are called with.
\* A commit identifier is the output of `git rev-parse --verify` (hash_for),
\* never the empty string.
Branches == {"a", "b", "c"}
Commits == {"c1", "c2"}

\* The number of tracker operations of one behaviour (over all sessions).
MaxOps == 3

VARIABLES
    file,                \* rows of branches.csv, in file order
    tmp,                 \* branches.csv.tmp: [exists, rows]
    child_to_parent,     \* BranchTracker._child_to_parent
    parent_to_children,  \* BranchTracker._parent_to_children (defaultdict(list))
    branch_to_bases,     \* BranchTracker._branch_to_bases
    pc,                  \* "out": no session; "body": inside the with block;
                         \* "exit": the body has ended, __exit__ is about to run
    err,                 \* the exception of the last step, or "none"
    last,                \* the last step: [op, x, y, z]
    nops,                \* tracker operations so far
    log,                 \* per branch, the last successful rebase call on it
                         \* (it follows the branch when it is renamed)
    since,               \* per name, the last successful rebase call on it
                         \* since another step replaced or removed its base
                         \* record, or the tracker was loaded
    used,                \* the kinds of tracker operations called so far;
                         \* "add_existing" is an add_child_for_parent of a
                         \* name that was no new name: an index held it, or
                         \* it was the name of the parent
    procs,               \* simultaneous invocations against the same store:
                         \* per process [pc, c2p, p2c, b2b, err, fd, rows, n]
    moved                \* the processes whose shutil.move replaced
                         \* branches.csv, in the order of the moves

vars == <<file, tmp, child_to_parent, parent_to_children, branch_to_bases,
          pc, err, last, nops, log, since, used, procs, moved>>

-----------------------------------------------------------------------------
\* python dict and list primitives

EmptyDict == [x \in {} |-> x]

\* d[k] = v
Put(d, k, v) == [x \in (DOMAIN d) \cup {k} |-> IF x = k THEN v ELSE d[x]]

\* del d[k] / the dict left by d.pop(k)
Del(d, k) == [x \in (DOMAIN d) \ {k} |-> d[x]]

\* x in list
Contains(s, x) == \E i \in 1..Len(s) : s[i] = x

Elems(s) == {s[i] : i \in 1..Len(s)}

\* list.remove(x): drops the first occurrence of x (x is in the list)
ListRemove(s, x) ==
    LET i == CHOOSE j \in 1..Len(s) : s[j] = x /\ \A k \in 1..(j-1) : s[k] # x
    IN  SubSeq(s, 1, i-1) \o SubSeq(s, i+1, Len(s))

\* defaultdict(list).__getitem__(k): a missing key is inserted with []
Touch(d, k) == IF k \in DOMAIN d THEN d ELSE Put(d, k, <<>>)

\* for child in children: c2p[child] = parent
SetAll(c2p, children, parent) ==
    [x \in (DOMAIN c2p) \cup Elems(children) |->
        IF x \in Elems(children) THEN parent ELSE c2p[x]]

Result(c, p, b, e) == [c2p |-> c, p2c |-> p, b2b |-> b, err |-> e]

EmptyTracker == [c2p |-> EmptyDict, p2c |-> EmptyDict, b2b |-> EmptyDict]

-----------------------------------------------------------------------------
\* BranchTracker queries

has_parent(t, branch) == branch \in DOMAIN t.c2p

\* the list children_for_parent returns (the insertion of a missing key is
\* after_children_for_parent)
children_for_parent(t, parent) ==
    IF parent \in DOMAIN t.p2c THEN t.p2c[parent] ELSE <<>>

get_all_parents(t) == DOMAIN t.p2c

\* The tracker after a query, and the exception the query ends in.
\* self._child_to_parent[child]
parent_for_child(t, child) ==
    Result(t.c2p, t.p2c, t.b2b, IF child \in DOMAIN t.c2p THEN "none" ELSE "KeyError")

\* self._parent_to_children[parent], on a defaultdict(list)
after_children_for_parent(t, parent) ==
    Result(t.c2p, Touch(t.p2c, parent), t.b2b, "none")

\* self._branch_to_bases[branch]
bases_for_branch(t, branch) ==
    Result(t.c2p, t.p2c, t.b2b, IF branch \in DOMAIN t.b2b THEN "none" ELSE "KeyError")

\* self._parent_to_children.keys()
after_get_all_parents(t) == Result(t.c2p, t.p2c, t.b2b, "none")

\* branch in self._child_to_parent
after_has_parent(t, branch) == Result(t.c2p, t.p2c, t.b2b, "none")

\* fail_if_not_rebased without the test on the number of bases
fail_if_not_rebased_one_base(t, current_branch, contains) ==
    IF current_branch \notin DOMAIN t.b2b
    THEN Result(t.c2p, t.p2c, t.b2b, "KeyError")
    ELSE IF Len(t.b2b[current_branch]) \notin {1, 2}
    THEN Result(t.c2p, t.p2c, t.b2b, "AssertionError")
    ELSE IF ~contains
    THEN Result(t.c2p, t.p2c, t.b2b, "SystemExit")
    ELSE Result(t.c2p, t.p2c, t.b2b, "none")

\* fail_if_not_rebased(current_branch, parent, tracker); contains is the
\* answer of does_branch_contain_commit(parent, bases[0]), which asks git.
\* It returns, or ends in exit() after "Please rebase this branch ..."
fail_if_not_rebased(t, current_branch, contains) ==
    IF current_branch \notin DOMAIN t.b2b
    THEN Result(t.c2p, t.p2c, t.b2b, "KeyError")
    ELSE IF Len(t.b2b[current_branch]) \notin {1, 2}
    THEN Result(t.c2p, t.p2c, t.b2b, "AssertionError")
    ELSE IF Len(t.b2b[current_branch]) = 2 \/ ~contains
    THEN Result(t.c2p, t.p2c, t.b2b, "SystemExit")
    ELSE Result(t.c2p, t.p2c, t.b2b, "none")

-----------------------------------------------------------------------------
\* BranchTracker mutations

add_child_for_parent(t, parent, new_child, child_base) ==
    LET c == Put(t.c2p, new_child, parent)
        p0 == Touch(t.p2c, parent)
        p == Put(p0, parent, Append(p0[parent], new_child))
        b == Put(t.b2b, new_child, <<child_base>>)
    IN  Result(c, p, b, "none")

set_parent(t, child, new_parent) ==
    LET unlink ==
            IF child \in DOMAIN t.c2p
            THEN LET old_parent == t.c2p[child]
                     p0 == Touch(t.p2c, old_parent)
                 IN  IF Contains(p0[old_parent], child)
                     THEN Result(t.c2p,
                                 Put(p0, old_parent, ListRemove(p0[old_parent], child)),
                                 t.b2b, "none")
                     ELSE Result(t.c2p, p0, t.b2b, "ValueError")
            ELSE Result(t.c2p, t.p2c, t.b2b, "none")
    IN  IF unlink.err # "none"
        THEN unlink
        ELSE LET c == Put(unlink.c2p, child, new_parent)
                 p0 == Touch(unlink.p2c, new_parent)
                 p == Put(p0, new_parent, Append(p0[new_parent], child))
             IN  Result(c, p, t.b2b, "none")

collapse_and_remove_parent(t, old_parent) ==
    IF old_parent \notin DOMAIN t.c2p
    THEN Result(t.c2p, t.p2c, t.b2b, "KeyError")
    ELSE
    LET new_parent == t.c2p[old_parent]
        c1 == Del(t.c2p, old_parent)
        p0 == Touch(t.p2c, new_parent)
    IN  IF ~Contains(p0[new_parent], old_parent)
        THEN Result(c1, p0, t.b2b, "ValueError")
        ELSE
        LET p1 == Put(p0, new_parent, ListRemove(p0[new_parent], old_parent))
        IN  IF old_parent \notin DOMAIN t.b2b
            THEN Result(c1, p1, t.b2b, "KeyError")
            ELSE
            LET b1 == Del(t.b2b, old_parent)
            IN  IF old_parent \notin DOMAIN p1
                THEN Result(c1, p1, b1, "none")
                ELSE
                LET children == p1[old_parent]
                    p2 == Touch(Del(p1, old_parent), new_parent)
                    p3 == Put(p2, new_parent, p2[new_parent] \o children)
                IN  Result(SetAll(c1, children, new_parent), p3, b1, "none")

rename_branch(t, old_branch, new_branch) ==
    IF old_branch \notin DOMAIN t.b2b
    THEN Result(t.c2p, t.p2c, t.b2b, "KeyError")
    ELSE
    LET b1 == Put(Del(t.b2b, old_branch), new_branch, t.b2b[old_branch])
        relink ==
            IF old_branch \in DOMAIN t.c2p
            THEN LET parent == t.c2p[old_branch]
                     c1 == Put(Del(t.c2p, old_branch), new_branch, parent)
                     p0 == Touch(t.p2c, parent)
                 IN  IF Contains(p0[parent], old_branch)
                     THEN Result(c1,
                                 Put(p0, parent,
                                     Append(ListRemove(p0[parent], old_branch), new_branch)),
                                 b1, "none")
                     ELSE Result(c1, p0, b1, "ValueError")
            ELSE Result(t.c2p, t.p2c, b1, "none")
    IN  IF relink.err # "none" \/ old_branch \notin DOMAIN relink.p2c
        THEN relink
        ELSE LET children == relink.p2c[old_branch]
                 p2 == Put(Del(relink.p2c, old_branch), new_branch, children)
             IN  Result(SetAll(relink.c2p, children, new_branch), p2, b1, "none")

remove_child_leaf(t, child_leaf) ==
    LET p0 == Touch(t.p2c, child_leaf)
    IN  IF p0[child_leaf] # <<>>
        THEN Result(t.c2p, p0, t.b2b, "AssertionError")
        ELSE IF child_leaf \notin DOMAIN t.c2p
        THEN Result(t.c2p, p0, t.b2b, "none")
        ELSE LET parent == t.c2p[child_leaf]
                 c1 == Del(t.c2p, child_leaf)
                 p1 == Touch(p0, parent)
             IN  IF Contains(p1[parent], child_leaf)
                 THEN Result(c1, Put(p1, parent, ListRemove(p1[parent], child_leaf)),
                             t.b2b, "none")
                 ELSE Result(c1, p1, t.b2b, "ValueError")

\* start_rebase without its assertion on the number of bases
start_rebase_unchecked(t, branch, new_base) ==
    IF branch \notin DOMAIN t.b2b
    THEN Result(t.c2p, t.p2c, t.b2b, "KeyError")
    ELSE Result(t.c2p, t.p2c, Put(t.b2b, branch, Append(t.b2b[branch], new_base)), "none")

start_rebase(t, branch, new_base) ==
    IF branch \notin DOMAIN t.b2b
    THEN Result(t.c2p, t.p2c, t.b2b, "KeyError")
    ELSE IF Len(t.b2b[branch]) # 1
    THEN Result(t.c2p, t.p2c, t.b2b, "AssertionError")
    ELSE Result(t.c2p, t.p2c, Put(t.b2b, branch, Append(t.b2b[branch], new_base)), "none")

\* finish_rebase without its assertion on the number of bases
finish_rebase_unchecked(t, branch, new_base) ==
    IF branch \notin DOMAIN t.b2b
    THEN Result(t.c2p, t.p2c, t.b2b, "KeyError")
    ELSE Result(t.c2p, t.p2c, Put(t.b2b, branch, <<new_base>>), "none")

finish_rebase(t, branch, new_base) ==
    IF branch \notin DOMAIN t.b2b
    THEN Result(t.c2p, t.p2c, t.b2b, "KeyError")
    ELSE IF Len(t.b2b[branch]) # 2
    THEN Result(t.c2p, t.p2c, t.b2b, "AssertionError")
    ELSE Result(t.c2p, t.p2c, Put(t.b2b, branch, <<new_base>>), "none")

-----------------------------------------------------------------------------
\* The csv store: BranchTracker.__init__ reads it, save_to_file writes it

\* the row save_to_file writes for child
RowOf(t, child) ==
    LET bases == t.b2b[child]
    IN  IF Len(bases) = 1
        THEN <<child, t.c2p[child], bases[1], "">>
        ELSE <<child, t.c2p[child], bases[1], bases[2]>>

\* The iteration orders of a dict with these keys (_child_to_parent.items()).
Orders(keys) ==
    {o \in [1..Cardinality(keys) -> keys] : \A k \in keys : \E i \in DOMAIN o : o[i] = k}

\* a file that does not exist
NoFile == [exists |-> FALSE, rows |-> <<>>]

\* open(name, "w"): the file is created, or truncated when it exists
open_w(f) == [exists |-> TRUE, rows |-> <<>>]

\* the rows the loop of save_to_file writes, the dict iterated in `order`:
\* all of them, or those before the first child without base record
\* (KeyError at `bases = self._branch_to_bases[child]`)
Written(t, order) ==
    LET missing == {i \in 1..Len(order) : order[i] \notin DOMAIN t.b2b}
        n == IF missing = {} THEN Len(order)
             ELSE (CHOOSE i \in missing : \A j \in missing : i <= j) - 1
    IN  [i \in 1..n |-> RowOf(t, order[i])]

\* save_to_file, with the dict iterated in `order`: the canonical file and
\* the temporary file after the call.  The rows go to the temporary file; a
\* child without a base record raises KeyError before shutil.move, the
\* canonical file stays and the temporary file keeps the rows written so far.
save_to_file(t, order, old_file) ==
    IF \E i \in 1..Len(order) : order[i] \notin DOMAIN t.b2b
    THEN [file |-> old_file,
          tmp |-> [exists |-> TRUE, rows |-> Written(t, order)],
          err |-> "KeyError"]
    ELSE [file |-> Written(t, order), tmp |-> NoFile, err |-> "none"]

\* BranchTracker.__init__ without its assertions on the child name
RECURSIVE read_rows_unchecked(_, _, _)
read_rows_unchecked(rows, i, t) ==
    IF i > Len(rows)
    THEN Result(t.c2p, t.p2c, t.b2b, "none")
    ELSE
    LET child == rows[i][1]
        parent == rows[i][2]
        base == rows[i][3]
        rebase_base == rows[i][4]
        c == Put(t.c2p, child, parent)
        p0 == Touch(t.p2c, parent)
        p == Put(p0, parent, Append(p0[parent], child))
    IN  IF base = ""
        THEN Result(c, p, t.b2b, "AssertionError")
        ELSE read_rows_unchecked(rows, i + 1,
                [c2p |-> c, p2c |-> p,
                 b2b |-> Put(t.b2b, child,
                             IF rebase_base # "" THEN <<base, rebase_base>>
                                                 ELSE <<base>>)])

\* BranchTracker.__init__: the loop over the rows from row i on
RECURSIVE read_rows(_, _, _)
read_rows(rows, i, t) ==
    IF i > Len(rows)
    THEN Result(t.c2p, t.p2c, t.b2b, "none")
    ELSE
    LET child == rows[i][1]
        parent == rows[i][2]
        base == rows[i][3]
        rebase_base == rows[i][4]
    IN  IF child \in DOMAIN t.c2p \/ child \in DOMAIN t.b2b
        THEN Result(t.c2p, t.p2c, t.b2b, "AssertionError")
        ELSE
        LET c == Put(t.c2p, child, parent)
            p0 == Touch(t.p2c, parent)
            p == Put(p0, parent, Append(p0[parent], child))
        IN  IF base = ""
            THEN Result(c, p, t.b2b, "AssertionError")
            ELSE read_rows(rows, i + 1,
                    [c2p |-> c, p2c |-> p,
                     b2b |-> Put(t.b2b, child,
                                 IF rebase_base # "" THEN <<base, rebase_base>>
                                                     ELSE <<base>>)])

load(rows) == read_rows(rows, 1, EmptyTracker)

-----------------------------------------------------------------------------
\* The state machine: sessions of `with get_branch_tracker() as tracker:`

\* The number of tracker operations of simultaneous invocations, over all of
\* them.
MaxProcOps == 2

\* two invocations of the tool in the same repository
Procs == {1, 2}

\* a process before get_branch_tracker.  pc: "new"; "body": inside the with
\* block; "exit": the body has ended; "open": save_to_file has opened the
\* temporary file; "closed": the rows are written and the file is closed;
\* "done": the process has ended; "crashed".  fd: the file its open file
\* object is on; order: the iteration order of the save; n: its tracker
\* operations; both: the other process had loaded when this one began to save
NewProc == [pc |-> "new", c2p |-> EmptyDict, p2c |-> EmptyDict, b2b |-> EmptyDict,
            err |-> "none", fd |-> "none", order |-> <<>>, n |-> 0, both |-> FALSE]

Tracker == [c2p |-> child_to_parent, p2c |-> parent_to_children,
            b2b |-> branch_to_bases]

Step(op, x, y, z) == [op |-> op, x |-> x, y |-> y, z |-> z]

\* some index holds the name: as a key or as a member of a children list
Known(t, b) ==
    \/ b \in DOMAIN t.c2p
    \/ b \in DOMAIN t.b2b
    \/ b \in DOMAIN t.p2c
    \/ \E p \in DOMAIN t.p2c : Contains(t.p2c[p], b)

RecordOf(b2b, b) == IF b \in DOMAIN b2b THEN b2b[b] ELSE <<>>

\* the rebase history of the names after a step that leaves the base records b
Forget(h, b) ==
    [n \in Branches |->
        IF RecordOf(b, n) = RecordOf(branch_to_bases, n) THEN h[n] ELSE "none"]

\* everything but the store, before the first session
Start ==
    /\ child_to_parent = EmptyDict
    /\ parent_to_children = EmptyDict
    /\ branch_to_bases = EmptyDict
    /\ pc = "out"
    /\ err = "none"
    /\ last = Step("init", "", "", "")
    /\ nops = 0
    /\ log = [n \in Branches |-> "none"]
    /\ since = [n \in Branches |-> "none"]
    /\ used = {}
    /\ tmp = NoFile
    /\ procs = [s \in Procs |-> NewProc]
    /\ moved = <<>>

\* get_branch_tracker on a repository without branches.csv creates it empty
Init == file = <<>> /\ Start

\* a repository whose store holds one child branch: what
\* add_child_for_parent("a", "b", "c1") and save_to_file left in an earlier run
InitStored == file = << <<"b", "a", "c1", "">> >> /\ Start

\* BranchTrackerWrapper.__enter__: a new BranchTracker reads the file
Enter ==
    /\ pc = "out"
    /\ LET r == load(file)
       IN  /\ err' = r.err
           /\ IF r.err = "none"
              THEN /\ child_to_parent' = r.c2p
                   /\ parent_to_children' = r.p2c
                   /\ branch_to_bases' = r.b2b
                   /\ since' = [n \in Branches |-> "none"]
                   /\ pc' = "body"
              ELSE /\ UNCHANGED <<child_to_parent, parent_to_children,
                                  branch_to_bases, since>>
                   /\ pc' = "out"
    /\ last' = Step("load", "", "", "")
    /\ UNCHANGED <<file, tmp, nops, log, used, procs, moved>>

Kinds(step) ==
    IF step.op = "add_child_for_parent" /\ (Known(Tracker, step.y) \/ step.x = step.y)
    THEN {step.op, "add_existing"}
    ELSE {step.op}

\* one tracker operation in the body, with result r; an exception ends the body
Apply(r, step) ==
    /\ pc = "body"
    /\ nops < MaxOps
    /\ child_to_parent' = r.c2p
    /\ parent_to_children' = r.p2c
    /\ branch_to_bases' = r.b2b
    /\ err' = r.err
    /\ pc' = IF r.err = "none" THEN "body" ELSE "exit"
    /\ last' = step
    /\ nops' = nops + 1
    /\ used' = used \cup Kinds(step)
    /\ UNCHANGED <<file, tmp, procs, moved>>

NoRebase(r) ==
    /\ log' = log
    /\ since' = Forget(since, r.b2b)

Rebase(r, branch, kind) ==
    IF r.err = "none"
    THEN /\ log' = [log EXCEPT ![branch] = kind]
         /\ since' = [since EXCEPT ![branch] = kind]
    ELSE UNCHANGED <<log, since>>

AddChildForParent ==
    \E parent \in Branches, new_child \in Branches, child_base \in Commits :
        LET r == add_child_for_parent(Tracker, parent, new_child, child_base)
        IN  /\ Apply(r, Step("add_child_for_parent", parent, new_child, child_base))
            /\ NoRebase(r)

SetParent ==
    \E child \in Branches, new_parent \in Branches :
        LET r == set_parent(Tracker, child, new_parent)
        IN  /\ Apply(r, Step("set_parent", child, new_parent, ""))
            /\ NoRebase(r)

CollapseAndRemoveParent ==
    \E old_parent \in Branches :
        LET r == collapse_and_remove_parent(Tracker, old_parent)
        IN  /\ Apply(r, Step("collapse_and_remove_parent", old_parent, "", ""))
            /\ NoRebase(r)

RenameBranch ==
    \E old_branch \in Branches, new_branch \in Branches :
        LET r == rename_branch(Tracker, old_branch, new_branch)
        IN  /\ Apply(r, Step("rename_branch", old_branch, new_branch, ""))
            /\ since' = Forget(since, r.b2b)
            /\ log' = IF r.err = "none"
                      THEN [n \in Branches |->
                               IF n = new_branch THEN log[old_branch]
                               ELSE IF n = old_branch THEN "none" ELSE log[n]]
                      ELSE log

RemoveChildLeaf ==
    \E child_leaf \in Branches :
        LET r == remove_child_leaf(Tracker, child_leaf)
        IN  /\ Apply(r, Step("remove_child_leaf", child_leaf, "", ""))
            /\ NoRebase(r)

StartRebase ==
    \E branch \in Branches, new_base \in Commits :
        LET r == start_rebase(Tracker, branch, new_base)
        IN  /\ Apply(r, Step("start_rebase", branch, new_base, ""))
            /\ Rebase(r, branch, "start_rebase")

FinishRebase ==
    \E branch \in Branches, new_base \in Commits :
        LET r == finish_rebase(Tracker, branch, new_base)
        IN  /\ Apply(r, Step("finish_rebase", branch, new_base, ""))
            /\ Rebase(r, branch, "finish_rebase")

ParentForChild ==
    \E child \in Branches :
        LET r == parent_for_child(Tracker, child)
        IN  /\ Apply(r, Step("parent_for_child", child, "", ""))
            /\ NoRebase(r)

ChildrenForParent ==
    \E parent \in Branches :
        LET r == after_children_for_parent(Tracker, parent)
        IN  /\ Apply(r, Step("children_for_parent", parent, "", ""))
            /\ NoRebase(r)

BasesForBranch ==
    \E branch \in Branches :
        LET r == bases_for_branch(Tracker, branch)
        IN  /\ Apply(r, Step("bases_for_branch", branch, "", ""))
            /\ NoRebase(r)

GetAllParents ==
    LET r == after_get_all_parents(Tracker)
    IN  /\ Apply(r, Step("get_all_parents", "", "", ""))
        /\ NoRebase(r)

HasParent ==
    \E branch \in Branches :
        LET r == after_has_parent(Tracker, branch)
        IN  /\ Apply(r, Step("has_parent", branch, "", ""))
            /\ NoRebase(r)

\* the rebase-precondition check of a handler; exit() ends the body
FailIfNotRebased ==
    \E current_branch \in Branches, contains \in BOOLEAN :
        LET r == fail_if_not_rebased(Tracker, current_branch, contains)
        IN  /\ Apply(r, Step("fail_if_not_rebased", current_branch,
                             IF contains THEN "contains" ELSE "stale", ""))
            /\ NoRebase(r)

\* the body returns
Return ==
    /\ pc = "body"
    /\ pc' = "exit"
    /\ err' = "none"
    /\ last' = Step("return", "", "", "")
    /\ UNCHANGED <<file, tmp, child_to_parent, parent_to_children,
                   branch_to_bases, nops, log, since, used, procs, moved>>

\* the body ends in exit(1): run_command_expecting_failure ends the process
\* after a failed command ("failed") or a KeyboardInterrupt ("interrupt")
SysExit ==
    /\ pc = "body"
    /\ \E why \in {"failed", "interrupt"} :
           last' = Step("exit", why, "", "")
    /\ pc' = "exit"
    /\ err' = "SystemExit"
    /\ UNCHANGED <<file, tmp, child_to_parent, parent_to_children,
                   branch_to_bases, nops, log, since, used, procs, moved>>

\* BranchTrackerWrapper.__exit__: save_to_file, however the body ended; the
\* process ends and its tracker is gone
Exit ==
    /\ pc = "exit"
    /\ \E order \in Orders(DOMAIN child_to_parent) :
           LET r == save_to_file(Tracker, order, file)
           IN  /\ file' = r.file
               /\ tmp' = r.tmp
               /\ err' = r.err
    /\ pc' = "out"
    /\ last' = Step("save", "", "", "")
    /\ child_to_parent' = EmptyDict
    /\ parent_to_children' = EmptyDict
    /\ branch_to_bases' = EmptyDict
    /\ UNCHANGED <<nops, log, since, used, procs, moved>>

Next ==
    \/ Enter
    \/ AddChildForParent
    \/ SetParent
    \/ CollapseAndRemoveParent
    \/ RenameBranch
    \/ RemoveChildLeaf
    \/ StartRebase
    \/ FinishRebase
    \/ ParentForChild
    \/ ChildrenForParent
    \/ BasesForBranch
    \/ GetAllParents
    \/ HasParent
    \/ FailIfNotRebased
    \/ Return
    \/ SysExit
    \/ Exit

Spec == Init /\ [][Next]_vars

SpecStored == InitStored /\ [][Next]_vars

\* Stores as an editor, or another program, can have left them: one row, the
\* same row twice, two rows for the same child
StoredFiles ==
    { << <<"b", "a", "c1", "">> >>,
      << <<"b", "a", "c1", "">>, <<"b", "a", "c1", "">> >>,
      << <<"b", "a", "c1", "">>, <<"b", "c", "c2", "">> >> }

InitFiles == file \in StoredFiles /\ Start

SpecFiles == InitFiles /\ [][Next]_vars

-----------------------------------------------------------------------------
\* Simultaneous invocations: each process is one session, and save_to_file
\* runs in its steps (open, write and close, move) on the files both share

Main == <<child_to_parent, parent_to_children, branch_to_bases,
          pc, err, last, nops, log, since, used>>

\* save_to_file without the temporary file: the rows go to branches.csv itself
config_file_itself == "file"

\* tmp_config_file = self._config_file + ".tmp"
tmp_config_file == "tmp"

\* the two files of the store
Disk == [file |-> [exists |-> TRUE, rows |-> file], tmp |-> tmp]

\* a write of rows at offset 0 of a file that holds old
Overwrite(old, rows) == rows \o SubSeq(old, Len(rows) + 1, Len(old))

DiskOpen(d, name) == [d EXCEPT ![name] = open_w(@)]

DiskWrite(d, name, rows) ==
    [d EXCEPT ![name] = [exists |-> TRUE, rows |-> Overwrite(@.rows, rows)]]

\* shutil.move(src, dst) of an existing src: os.rename
DiskMove(d, src, dst) ==
    IF src = dst THEN d ELSE [d EXCEPT ![dst] = d[src], ![src] = NoFile]

SetDisk(d) ==
    /\ file' = d.file.rows
    /\ tmp' = d.tmp

TrackerOf(s) == [c2p |-> procs[s].c2p, p2c |-> procs[s].p2c, b2b |-> procs[s].b2b]

\* the results of the tracker mutations a handler can call
Calls(t) ==
    {add_child_for_parent(t, x, y, c) : x \in Branches, y \in Branches, c \in Commits}
    \cup {set_parent(t, x, y) : x \in Branches, y \in Branches}
    \cup {collapse_and_remove_parent(t, x) : x \in Branches}
    \cup {rename_branch(t, x, y) : x \in Branches, y \in Branches}
    \cup {remove_child_leaf(t, x) : x \in Branches}
    \cup {start_rebase(t, x, c) : x \in Branches, c \in Commits}
    \cup {finish_rebase(t, x, c) : x \in Branches, c \in Commits}

\* BranchTrackerWrapper.__enter__ of process s
ProcEnter(s) ==
    /\ procs[s].pc = "new"
    /\ LET r == load(file)
       IN  procs' = [procs EXCEPT ![s] =
               IF r.err = "none"
               THEN [@ EXCEPT !.pc = "body", !.c2p = r.c2p, !.p2c = r.p2c, !.b2b = r.b2b]
               ELSE [@ EXCEPT !.pc = "done", !.err = r.err]]
    /\ UNCHANGED <<file, tmp, moved, Main>>

\* one tracker mutation in the body of process s
ProcCall(s) ==
    /\ procs[s].pc = "body"
    /\ procs[1].n + procs[2].n < MaxProcOps
    /\ \E r \in Calls(TrackerOf(s)) :
           procs' = [procs EXCEPT ![s] =
               [@ EXCEPT !.c2p = r.c2p, !.p2c = r.p2c, !.b2b = r.b2b, !.err = r.err,
                         !.pc = IF r.err = "none" THEN "body" ELSE "exit",
                         !.n = @ + 1]]
    /\ UNCHANGED <<file, tmp, moved, Main>>

\* the body of process s ends: it returns, or ends in exit()
ProcReturn(s) ==
    /\ procs[s].pc = "body"
    /\ procs' = [procs EXCEPT ![s] = [@ EXCEPT !.pc = "exit", !.err = "none"]]
    /\ UNCHANGED <<file, tmp, moved, Main>>

\* save_to_file of process s: open(tmp_config_file, "w")
ProcOpen(s) ==
    /\ procs[s].pc = "exit"
    /\ \E order \in Orders(DOMAIN procs[s].c2p) :
           procs' = [procs EXCEPT ![s] =
               [@ EXCEPT !.pc = "open", !.fd = tmp_config_file, !.order = order,
                         !.both = \A o \in Procs \ {s} : procs[o].pc # "new"]]
    /\ SetDisk(DiskOpen(Disk, tmp_config_file))
    /\ UNCHANGED <<moved, Main>>

\* save_to_file of process s: the loop over the dict and the end of the with
\* block, which writes the rows to the open file and closes it; KeyError ends
\* save_to_file after the rows before it are written
ProcWrite(s) ==
    /\ procs[s].pc = "open"
    /\ LET rows == Written(TrackerOf(s), procs[s].order)
           raised == Len(rows) < Len(procs[s].order)
       IN  /\ SetDisk(DiskWrite(Disk, procs[s].fd, rows))
           /\ procs' = [procs EXCEPT ![s] =
                  [@ EXCEPT !.pc = IF raised THEN "done" ELSE "closed",
                            !.err = IF raised THEN "KeyError" ELSE "none",
                            !.fd = "none"]]
    /\ UNCHANGED <<moved, Main>>

\* save_to_file of process s: shutil.move(tmp_config_file, self._config_file)
ProcMove(s) ==
    /\ procs[s].pc = "closed"
    /\ IF Disk[tmp_config_file].exists
       THEN /\ SetDisk(DiskMove(Disk, tmp_config_file, "file"))
            /\ procs' = [o \in Procs |->
                   IF o = s THEN [procs[o] EXCEPT !.pc = "done", !.err = "none"]
                   ELSE IF procs[o].fd = tmp_config_file
                   THEN [procs[o] EXCEPT !.fd = "file"]
                   ELSE procs[o]]
            /\ moved' = Append(moved, s)
       ELSE /\ procs' = [procs EXCEPT ![s] = [@ EXCEPT !.pc = "done", !.err = "IOError"]]
            /\ UNCHANGED <<file, tmp, moved>>
    /\ UNCHANGED Main

\* process s is killed inside save_to_file: before the open, while the rows
\* are written (any number of them has reached the file), or before the move
ProcCrash(s) ==
    /\ procs[s].pc \in {"exit", "open", "closed"}
    /\ IF procs[s].pc = "open"
       THEN \E k \in 0..Len(Written(TrackerOf(s), procs[s].order)) :
                SetDisk(DiskWrite(Disk, procs[s].fd,
                                  SubSeq(Written(TrackerOf(s), procs[s].order), 1, k)))
       ELSE UNCHANGED <<file, tmp>>
    /\ procs' = [procs EXCEPT ![s] = [@ EXCEPT !.pc = "crashed", !.fd = "none"]]
    /\ UNCHANGED <<moved, Main>>

NextProcs ==
    \E s \in Procs :
        \/ ProcEnter(s)
        \/ ProcCall(s)
        \/ ProcReturn(s)
        \/ ProcOpen(s)
        \/ ProcWrite(s)
        \/ ProcMove(s)
        \/ ProcCrash(s)

SpecProcs == InitStored /\ [][NextProcs]_vars

-----------------------------------------------------------------------------
\* Properties

InSession == pc \in {"body", "exit"}

\* every add_child_for_parent so far registered a new name
NewNamesAdded == "add_existing" \notin used

\* every parent entry is mirrored in the children list of the parent
ChildListed(t) ==
    \A b \in DOMAIN t.c2p : Contains(children_for_parent(t, t.c2p[b]), b)

\* every member of a children list has that parent
ListedIsChild(t) ==
    \A p \in DOMAIN t.p2c : \A i \in 1..Len(t.p2c[p]) :
        /\ t.p2c[p][i] \in DOMAIN t.c2p
        /\ t.c2p[t.p2c[p][i]] = p

\* C1: with every add_child_for_parent registering a not-yet-tracked name,
\* after any sequence of mutation operations every branch B with parent P is
\* a member of children_for_parent(P), and every member of
\* children_for_parent(P) has parent P.
C1_BidirectionalConsistency ==
    (InSession /\ NewNamesAdded) => (ChildListed(Tracker) /\ ListedIsChild(Tracker))

\* the ancestors of b: its parent, the parent of its parent, ...
RECURSIVE Up(_, _, _)
Up(c2p, S, n) ==
    IF n = 0 THEN S
    ELSE Up(c2p, S \cup {c2p[x] : x \in S \cap DOMAIN c2p}, n - 1)

Ancestors(c2p, b) ==
    IF b \in DOMAIN c2p THEN Up(c2p, {c2p[b]}, Cardinality(Branches)) ELSE {}

Acyclic(c2p) == \A b \in Branches : b \notin Ancestors(c2p, b)

\* C2: in every state reachable from an empty tracker by the mutation
\* operations (add_child_for_parent registering new names), no branch is its
\* own ancestor under child->parent.
C2_Acyclic ==
    (InSession /\ NewNamesAdded) => Acyclic(child_to_parent)

\* the same elements with the same multiplicities
SameUpToOrder(s1, s2) ==
    \A x \in Elems(s1) \cup Elems(s2) :
        Cardinality({i \in 1..Len(s1) : s1[i] = x})
            = Cardinality({i \in 1..Len(s2) : s2[i] = x})

\* the tracker u holds the records of the tracker t
SameRecords(t, u) ==
    /\ u.c2p = t.c2p
    /\ u.b2b = t.b2b
    /\ \A p \in Branches :
           SameUpToOrder(children_for_parent(u, p), children_for_parent(t, p))

\* save_to_file on t, then a new BranchTracker on the file, gives t back
RoundTrip(t) ==
    \A order \in Orders(DOMAIN t.c2p) :
        LET saved == save_to_file(t, order, file)
        IN  /\ saved.err = "none"
            /\ load(saved.file).err = "none"
            /\ SameRecords(t, load(saved.file))

BuildOps == {"add_child_for_parent", "set_parent", "rename_branch"}

\* C3: a tracker state (here: a tree without cycles) built from an empty
\* store by add_child_for_parent (of new names, as its precondition asks),
\* set_parent and rename_branch calls is saved without error, and a new tracker loaded from
\* the saved file has the same parents, the same bases and the same children
\* lists up to order.
C3_RoundTrip ==
    (/\ pc = "body"
     /\ file = <<>>
     /\ used \subseteq BuildOps
     /\ Acyclic(child_to_parent)) => RoundTrip(Tracker)

OpStep == pc = "body" /\ nops' = nops + 1

\* a tracker operation on a tree without cycles, built with new names
TreeStep == OpStep /\ NewNamesAdded /\ Acyclic(child_to_parent)

Raised == {"KeyError", "ValueError", "AssertionError"}

\* C4: a tracker mutation that fails (here: on a tree without cycles) leaves
\* the three indexes exactly as they were before the call.
C4_FailureLeavesIndexes ==
    [][(TreeStep /\ err' \in Raised) =>
          /\ child_to_parent' = child_to_parent
          /\ parent_to_children' = parent_to_children
          /\ branch_to_bases' = branch_to_bases]_vars

Listed(p2c, b) == \E p \in DOMAIN p2c : Contains(p2c[p], b)

\* C5: remove_child_leaf(b) (here: on a tree without cycles) fails when b has
\* a child and succeeds when it has none, and after a successful call b has
\* no parent entry, is in no children list and has no base record.
C5_RemoveChildLeaf ==
    [][(TreeStep /\ last'.op = "remove_child_leaf") =>
          LET b == last'.x
          IN  IF children_for_parent(Tracker, b) # <<>>
              THEN err' # "none"
              ELSE /\ err' = "none"
                   /\ b \notin DOMAIN child_to_parent'
                   /\ ~Listed(parent_to_children', b)
                   /\ b \notin DOMAIN branch_to_bases']_vars

\* the name is in the tree: it has a parent, or children, or is listed
InTree(t, b) ==
    \/ b \in DOMAIN t.c2p
    \/ children_for_parent(t, b) # <<>>
    \/ Listed(t.p2c, b)

\* C6: rename_branch(old, new) of a branch old in the tree (here: a tree
\* without cycles) to a name new not in the tree moves the base record to
\* new, puts new in place of old in the former parent's children list, gives
\* every former child of old the parent new, and leaves old resolving to
\* nothing.
C6_RenameBranch ==
    [][(/\ TreeStep
        /\ last'.op = "rename_branch"
        /\ InTree(Tracker, last'.x)
        /\ ~InTree(Tracker, last'.y)) =>
          LET old == last'.x
              new == last'.y
          IN  /\ err' = "none"
              /\ old \in DOMAIN branch_to_bases
              /\ new \in DOMAIN branch_to_bases'
              /\ branch_to_bases'[new] = branch_to_bases[old]
              /\ old \in DOMAIN child_to_parent =>
                     /\ new \in DOMAIN child_to_parent'
                     /\ child_to_parent'[new] = child_to_parent[old]
                     /\ Contains(parent_to_children'[child_to_parent[old]], new)
              /\ \A c \in Elems(children_for_parent(Tracker, old)) :
                     c \in DOMAIN child_to_parent' /\ child_to_parent'[c] = new
              /\ old \notin DOMAIN child_to_parent'
              /\ old \notin DOMAIN parent_to_children'
              /\ old \notin DOMAIN branch_to_bases'
              /\ ~Listed(parent_to_children', old)]_vars

\* C7: collapse_and_remove_parent(B) of a branch B with parent A and children
\* S (here: in a tree without cycles) gives every branch of S the parent A
\* and lists it under A, leaves B in no index and without base record, and
\* keeps every other base record.
C7_CollapseAndRemoveParent ==
    [][(/\ TreeStep
        /\ last'.op = "collapse_and_remove_parent"
        /\ last'.x \in DOMAIN child_to_parent) =>
          LET B == last'.x
              A == child_to_parent[B]
              S == Elems(children_for_parent(Tracker, B))
          IN  /\ err' = "none"
              /\ \A c \in S :
                     /\ c \in DOMAIN child_to_parent'
                     /\ child_to_parent'[c] = A
                     /\ A \in DOMAIN parent_to_children'
                     /\ Contains(parent_to_children'[A], c)
              /\ B \notin DOMAIN child_to_parent'
              /\ B \notin DOMAIN parent_to_children'
              /\ ~Listed(parent_to_children', B)
              /\ B \notin DOMAIN branch_to_bases'
              /\ \A x \in Branches \ {B} :
                     RecordOf(branch_to_bases', x) = RecordOf(branch_to_bases, x)]_vars


\* C8 as claimed: over any operation sequence the successful start_rebase
\* and finish_rebase calls on a branch alternate, starting with
\* start_rebase.  So after a successful start_rebase on b no start_rebase on
\* b succeeds before a finish_rebase did, and finish_rebase on b succeeds
\* only if the last successful call on b was a start_rebase.
C8_AlternateInAnySequence ==
    (InSession /\ NewNamesAdded /\ Acyclic(child_to_parent)) =>
        \A b \in Branches : \A n \in Commits :
            /\ log[b] = "start_rebase" => start_rebase(Tracker, b, n).err # "none"
            /\ log[b] # "start_rebase" => finish_rebase(Tracker, b, n).err # "none"

\* C8, amended: start_rebase(b, n) succeeds exactly when b has the one-element
\* record (base,), and makes it (base, n); finish_rebase(b, m) succeeds exactly
\* when b has a two-element record, and makes it (m,); a failing call leaves
\* the base records unchanged.  Successful calls on b alternate as long as no
\* other step replaces or removes the base record of b in between: a
\* successful start_rebase is never the first call after a successful
\* start_rebase, nor a finish_rebase after a finish_rebase.
C8_RebaseAlternates ==
    [][(OpStep /\ last'.op \in {"start_rebase", "finish_rebase"}) =>
          LET b == last'.x
              n == last'.y
              starts == last'.op = "start_rebase"
              has == IF b \in DOMAIN branch_to_bases
                     THEN Len(branch_to_bases[b]) ELSE 0
          IN  IF err' = "none"
              THEN /\ has = (IF starts THEN 1 ELSE 2)
                   /\ branch_to_bases' =
                          Put(branch_to_bases, b,
                              IF starts THEN <<branch_to_bases[b][1], n>> ELSE <<n>>)
                   /\ since[b] # last'.op
              ELSE /\ has # (IF starts THEN 1 ELSE 2)
                   /\ branch_to_bases' = branch_to_bases]_vars

\* a second finish_rebase directly after a successful one has failed
C8_SecondFinishFailed ==
    /\ last.op = "finish_rebase"
    /\ err = "AssertionError"
    /\ since[last.x] = "finish_rebase"

\* C9: every base record has one or two elements.
C9_BaseArity ==
    \A x \in DOMAIN branch_to_bases : Len(branch_to_bases[x]) \in {1, 2}

\* start_rebase has given a two-element record to a branch that was loaded
\* from the store
C9_RebaseStartedAfterLoad ==
    /\ pc = "body"
    /\ \E i \in 1..Len(file) : file[i][1] = last.x
    /\ last.op = "start_rebase"
    /\ err = "none"
    /\ Len(branch_to_bases[last.x]) = 2

\* C10: however the body of a session ends, __exit__ leaves in the store the
\* records the tracker held at that moment.
C10_SessionSaves ==
    [][(/\ pc = "exit"
        /\ pc' = "out"
        /\ NewNamesAdded
        /\ Acyclic(child_to_parent)) =>
          /\ err' = "none"
          /\ load(file').err = "none"
          /\ load(file').c2p = child_to_parent
          /\ \A b \in DOMAIN child_to_parent :
                 /\ b \in DOMAIN branch_to_bases
                 /\ load(file').b2b[b] = branch_to_bases[b]]_vars

\* the processes other than s
Others(s) == Procs \ {s}

\* C11: while no other invocation is saving, every step of a process (each
\* step of its save_to_file, and its crash at any of them) leaves under the
\* canonical name the content it had, except the move, which puts there the
\* complete new content: one row for every child of the tracker.
C11_AtomicSave ==
    [][\A s \in Procs :
          (/\ procs'[s] # procs[s]
           /\ \A o \in Others(s) : procs[o].pc \in {"new", "body", "exit"}) =>
              \/ file' = file
              \/ /\ procs[s].pc = "closed"
                 /\ procs'[s].pc = "done"
                 /\ file' = Written(TrackerOf(s), procs[s].order)
                 /\ {file'[i][1] : i \in 1..Len(file')} = DOMAIN procs[s].c2p]_vars

\* a process that ran alone was killed with a part of its rows written to the
\* temporary file, and branches.csv holds what it held before
C11_CrashedMidWrite ==
    \E s \in Procs :
        /\ procs[s].pc = "crashed"
        /\ \A o \in Others(s) : procs[o].pc = "new"
        /\ procs[s].n > 0
        /\ tmp.exists
        /\ Len(tmp.rows) > 0
        /\ Len(tmp.rows) < Cardinality(DOMAIN procs[s].c2p)
        /\ file = << <<"b", "a", "c1", "">> >>

\* C12: in every state reached by tracker queries and mutations (here: by
\* add_child_for_parent of new names and set_parent alone, none of them
\* raised, the tree has no cycle), a name is in get_all_parents() if and
\* only if children_for_parent of it is non-empty.
C12_AllParentsHaveChildren ==
    (/\ pc = "body"
     /\ used \subseteq {"add_child_for_parent", "set_parent"}
     /\ Acyclic(child_to_parent)) =>
        \A p \in Branches :
            p \in get_all_parents(Tracker) <=> children_for_parent(Tracker, p) # <<>>

\* C13: fail_if_not_rebased(branch, parent, tracker) returns, and the body
\* goes on, if and only if the branch has exactly one base and the parent
\* contains it; with two bases, or a base the parent does not contain, it
\* ends the body in exit(); in every case it leaves the tracker as it was.
\* The save of __exit__ after a refusal, in a session whose tracker holds
\* the records it loaded, raises nothing and leaves in the store the rows
\* that were there.
C13_FailIfNotRebased ==
    [][/\ (OpStep /\ last'.op = "fail_if_not_rebased") =>
             LET b == last'.x
                 tracked == b \in DOMAIN branch_to_bases
                 rebased == /\ tracked
                            /\ Len(branch_to_bases[b]) = 1
                            /\ last'.y = "contains"
             IN  /\ child_to_parent' = child_to_parent
                 /\ parent_to_children' = parent_to_children
                 /\ branch_to_bases' = branch_to_bases
                 /\ rebased <=> (err' = "none" /\ pc' = "body")
                 /\ (tracked /\ ~rebased) => (err' = "SystemExit" /\ pc' = "exit")
       /\ (/\ pc = "exit"
           /\ pc' = "out"
           /\ last.op = "fail_if_not_rebased"
           /\ err = "SystemExit"
           /\ SameRecords(Tracker, load(file))) =>
             /\ err' = "none"
             /\ SameUpToOrder(file', file)]_vars

\* the check has refused a branch that was loaded from the store in the
\* middle of a rebase, although the parent contains its base
C13_RefusedMidRebase ==
    /\ pc = "exit"
    /\ last.op = "fail_if_not_rebased"
    /\ last.y = "contains"
    /\ err = "SystemExit"
    /\ file # <<>>
    /\ SameRecords(Tracker, load(file))
    /\ Len(branch_to_bases[last.x]) = 2

\* the children list of p after the step
ChildrenAfter(p) ==
    IF p \in DOMAIN parent_to_children' THEN parent_to_children'[p] ELSE <<>>

\* C14: set_parent(child, new_parent) (here: on a tree without cycles, no
\* call before it raised) succeeds; afterwards the parent of child is
\* new_parent, child is in the children list of new_parent and, if it had a
\* different old parent, no longer in the list of that parent; the base
\* records and the parent of every other branch are unchanged.
C14_SetParent ==
    [][(TreeStep /\ last'.op = "set_parent") =>
          LET child == last'.x
              new_parent == last'.y
          IN  /\ err' = "none"
              /\ child \in DOMAIN child_to_parent'
              /\ child_to_parent'[child] = new_parent
              /\ Contains(ChildrenAfter(new_parent), child)
              /\ (child \in DOMAIN child_to_parent /\ child_to_parent[child] # new_parent) =>
                     ~Contains(ChildrenAfter(child_to_parent[child]), child)
              /\ branch_to_bases' = branch_to_bases
              /\ \A x \in Branches \ {child} :
                     /\ x \in DOMAIN child_to_parent' <=> x \in DOMAIN child_to_parent
                     /\ x \in DOMAIN child_to_parent =>
                            child_to_parent'[x] = child_to_parent[x]]_vars

\* both processes loaded the store before either began to save, each called
\* a mutation, and both have ended
BothSaved ==
    \A s \in Procs : procs[s].pc = "done" /\ procs[s].both /\ procs[s].n > 0

\* every child of the tracker has a base record: save_to_file finds the
\* bases of every row
Recorded(t) == DOMAIN t.c2p \subseteq DOMAIN t.b2b

\* C15: when two sessions both load the store before either saves and then
\* each mutates and saves (here: trees without cycles in which every child
\* has a base record), no save raises, and the store afterwards holds
\* exactly the rows of the session whose save ran last.
C15_LastSaveWins ==
    (/\ BothSaved
     /\ \A s \in Procs : Recorded(TrackerOf(s)) /\ Acyclic(procs[s].c2p)) =>
        /\ \A s \in Procs : procs[s].err = "none"
        /\ Len(moved) = 2
        /\ file = Written(TrackerOf(moved[2]), procs[moved[2]].order)

\* the tracker after the step
TrackerAfter == [c2p |-> child_to_parent', p2c |-> parent_to_children',
                 b2b |-> branch_to_bases']

\* the tracker u gives the answers about new_child that add_child_for_parent
\* promises
Registered(u, parent, new_child, base) ==
    /\ new_child \in DOMAIN u.c2p
    /\ u.c2p[new_child] = parent
    /\ Contains(children_for_parent(u, parent), new_child)
    /\ new_child \in DOMAIN u.b2b
    /\ u.b2b[new_child] = <<base>>

\* C16: add_child_for_parent(parent, new_child, base) of a name no index
\* holds (here: on a tree without cycles, no call before it raised)
\* succeeds and registers one record: new_child has the parent, is in the
\* children list of the parent and has the bases (base,); every other
\* parent entry, base record and children list is unchanged; and a tracker
\* loaded after save_to_file gives the same answers about new_child.
C16_AddChildForParent ==
    [][(/\ TreeStep
        /\ last'.op = "add_child_for_parent"
        /\ ~Known(Tracker, last'.y)) =>
          LET parent == last'.x
              new_child == last'.y
              base == last'.z
          IN  /\ err' = "none"
              /\ Registered(TrackerAfter, parent, new_child, base)
              /\ child_to_parent' = Put(child_to_parent, new_child, parent)
              /\ branch_to_bases' = Put(branch_to_bases, new_child, <<base>>)
              /\ ChildrenAfter(parent)
                     = Append(children_for_parent(Tracker, parent), new_child)
              /\ \A p \in Branches \ {parent} :
                     ChildrenAfter(p) = children_for_parent(Tracker, p)
              /\ \A order \in Orders(DOMAIN child_to_parent') :
                     LET saved == save_to_file(TrackerAfter, order, file)
                     IN  /\ saved.err = "none"
                         /\ load(saved.file).err = "none"
                         /\ Registered(load(saved.file), parent, new_child, base)]_vars

\* a child name is in more than one row
HasDuplicate(rows) ==
    \E i \in 1..Len(rows), j \in 1..Len(rows) : i # j /\ rows[i][1] = rows[j][1]

\* C17: loading a store in which a child name is in more than one row
\* fails and gives no tracker (no session begins); and the store after
\* every save_to_file has no child name in two rows and loads without
\* error.
C17_DuplicateRows ==
    [][/\ (pc = "out" /\ last'.op = "load" /\ HasDuplicate(file)) =>
             /\ err' = "AssertionError"
             /\ pc' = "out"
             /\ TrackerAfter = EmptyTracker
       /\ (pc = "exit" /\ pc' = "out") =>
             /\ ~HasDuplicate(file')
             /\ load(file').err = "none"]_vars

\* the load of a store with two rows for one child has failed
C17_DuplicateRefused ==
    /\ pc = "out"
    /\ last.op = "load"
    /\ err = "AssertionError"
    /\ HasDuplicate(file)

\* the branches the tracker has a record of: a parent entry or a base record
TrackedNames(t) == DOMAIN t.c2p \cup DOMAIN t.b2b

\* C18: rename_branch(old, new) of a branch old that has a parent and a
\* base record (here: in a tree without cycles, no call before it raised),
\* for every name new, succeeds and keeps the number of tracked branches;
\* every tracked branch other than old keeps its bases and its parent (new
\* in place of old where old was the parent).
C18_RenameKeepsRecords ==
    [][(/\ TreeStep
        /\ last'.op = "rename_branch"
        /\ last'.x \in DOMAIN child_to_parent
        /\ last'.x \in DOMAIN branch_to_bases) =>
          LET old == last'.x
              new == last'.y
          IN  /\ err' = "none"
              /\ Cardinality(TrackedNames(TrackerAfter))
                     = Cardinality(TrackedNames(Tracker))
              /\ \A x \in TrackedNames(Tracker) \ {old} :
                     /\ x \in DOMAIN child_to_parent =>
                            /\ x \in DOMAIN child_to_parent'
                            /\ child_to_parent'[x] =
                                   IF child_to_parent[x] = old THEN new
                                   ELSE child_to_parent[x]
                     /\ x \in DOMAIN branch_to_bases =>
                            /\ x \in DOMAIN branch_to_bases'
                            /\ branch_to_bases'[x] = branch_to_bases[x]]_vars

\* C19: in every state reached after load by the tracker operations (here:
\* none of them raised, the tree has no cycle), the branches with a parent
\* entry are the branches with a base record.
C19_ParentsAndBasesAgree ==
    (pc = "body" /\ NewNamesAdded /\ Acyclic(child_to_parent)) =>
        DOMAIN child_to_parent = DOMAIN branch_to_bases

Queries == {"parent_for_child", "children_for_parent", "bases_for_branch",
            "get_all_parents", "has_parent"}

\* C20: a query (here: on a tree without cycles, no call before it raised),
\* with any branch name, leaves the three indexes as they were, so that
\* get_all_parents and every other query answer as before, and
\* save_to_file writes the same rows.
C20_QueriesReadOnly ==
    [][(TreeStep /\ last'.op \in Queries) =>
          /\ child_to_parent' = child_to_parent
          /\ parent_to_children' = parent_to_children
          /\ branch_to_bases' = branch_to_bases
          /\ get_all_parents(TrackerAfter) = get_all_parents(Tracker)]_vars

====
